---- MODULE Spec2Model ----
(***************************************************************************)
(* A model of jet_sim_3d.py: the parton-shower tree builder (create_tree,  *)
(* split, gen_z_val, gen_theta_val, gen_phi_val) and the renderer          *)
(* (Visualizer3D.create_graph).                                            *)
(*                                                                         *)
(* Numbers.  Python floats are modelled in fixed point: a real x is the    *)
(* integer round(x * Unit).  Angles are kept as integers in units of       *)
(* pi/Pi radians (1.5 degrees), so that the sums theta_0 + theta and the   *)
(* sine/cosine of the angles the program builds are table look-ups.        *)
(* The random source random.random() returns k/rden for k in 0..rden-1,    *)
(* a grid on [0, 1); rden is fixed in the initial state.                   *)
(***************************************************************************)
EXTENDS Integers, Sequences, FiniteSets, TLC

\* ------------------------------------------------------------------ bounds
\* max_layers ranges over 0..MaxLayers
MaxLayers == 2
\* the grid of the random source ranges over 1..MaxRDen
MaxRDen == 4
\* a run is explored when the number of (z, theta, phi) outcomes of all of
\* its nodes together, rden^(3 * nodes), is at most MaxOutcomes
MaxOutcomes == 512

\* ------------------------------------------------------------- arithmetic
\* the fixed-point denominator of a float
Unit == 6000
\* math.pi in angle units (one unit is 1.5 degrees)
Pi == 120
\* math.pi as a fixed-point real
PiFixed == 18850
\* Python's None (node ids start at 1)
None == 0

Abs(x) == IF x < 0 THEN -x ELSE x

\* a / b rounded to the nearest integer (b > 0)
RoundDiv(a, b) == (2 * a + b) \div (2 * b)

\* float product and quotient of two fixed-point reals
FMul(a, b) == RoundDiv(a * b, Unit)
FDiv(a, b) == RoundDiv(a * Unit, b)

RECURSIVE SqrtSearch(_, _, _)
\* the largest r in lo..hi with r * r <= n (lo * lo <= n < (hi + 1)^2)
SqrtSearch(n, lo, hi) ==
    IF lo >= hi THEN lo
    ELSE CHOOSE r \in { IF mid * mid <= n THEN SqrtSearch(n, mid, hi)
                        ELSE SqrtSearch(n, lo, mid - 1) :
                        mid \in { (lo + hi + 1) \div 2 } } : TRUE

\* np.sqrt on an exact sum of squares of fixed-point reals, to the nearest
Sqrt(n) == (SqrtSearch(4 * n, 0, 46000) + 1) \div 2

\* sin(k * 1.5 degrees) * Unit for k = 0..60, at index k + 1
SinTable ==
    << 0, 157, 314, 471, 627, 783, 939, 1093, 1247, 1401, 1553, 1704, 1854,
       2003, 2150, 2296, 2440, 2583, 2724, 2863, 3000, 3135, 3268, 3398,
       3527, 3653, 3776, 3897, 4015, 4130, 4243, 4352, 4459, 4562, 4663,
       4760, 4854, 4945, 5032, 5116, 5196, 5273, 5346, 5416, 5481, 5543,
       5601, 5656, 5706, 5753, 5796, 5834, 5869, 5900, 5926, 5949, 5967,
       5982, 5992, 5998, 6000 >>

\* math.sin of an angle in angle units
Sin(a) ==
    LET m == a % (2 * Pi)
        h == Pi \div 2
    IN  IF m <= h THEN SinTable[m + 1]
        ELSE IF m <= Pi THEN SinTable[Pi - m + 1]
        ELSE IF m <= Pi + h THEN -SinTable[m - Pi + 1]
        ELSE -SinTable[2 * Pi - m + 1]

\* math.cos of an angle in angle units
Cos(a) == Sin(a + Pi \div 2)

\* an angle in angle units as a fixed-point real number of radians
Radians(a) == RoundDiv(a * PiFixed, Pi)

\* np.sqrt(np.sum(np.power(p, 2)))
Norm(p) == Sqrt(p[1] * p[1] + p[2] * p[2] + p[3] * p[3])

RECURSIVE PowCap(_, _, _)
\* min(b^e, cap + 1)
PowCap(b, e, cap) ==
    IF e = 0 THEN 1
    ELSE LET r == b * PowCap(b, e - 1, cap)
         IN  IF r > cap THEN cap + 1 ELSE r

RECURSIVE Pow2(_)
Pow2(e) == IF e <= 0 THEN 1 ELSE 2 * Pow2(e - 1)

\* ------------------------------------------------------------------ state
VARIABLES
    max_layers,    \* create_tree's max_layers argument
    start_layer,   \* the curr_layer argument of the outermost create_tree call
    rden,          \* the grid of random.random(): it returns k / rden
    stack,         \* the activations of create_tree, outermost first
    gen,           \* the running rejection sampler: its loop position and num
    heap,          \* the Parton objects, by id
    built,         \* per Parton, the locals of the activation that made it
    root,          \* what the outermost create_tree call returned
    phase,         \* "building", "built", "drawing", "done"
    calls,         \* how many calls of each sampler and of split have returned
    log_lines,     \* how many lines logging.info has written
    np_precision,  \* numpy's process-wide print precision
    gstack,        \* the activations of create_graph, outermost first
    segments,      \* what self._axes.plot was given, in order
    origin,        \* the (x_0, y_0, z_0) of the outermost create_graph call
    input,         \* the (p_0, theta_0) the outermost create_tree call was given
    ret            \* the latest create_tree return: its value and its arguments

vars == << max_layers, start_layer, rden, stack, gen, heap, built, root, phase,
           calls, log_lines, np_precision, gstack, segments, origin, input, ret >>

\* the arguments of the run, which no step changes
cfgVars == << max_layers, start_layer, rden, input >>

treeVars == << cfgVars, stack, gen, heap, built, root, calls, log_lines,
               np_precision, ret >>

Top(s) == s[Len(s)]
Pop(s) == SubSeq(s, 1, Len(s) - 1)
SetTop(s, f) == [s EXCEPT ![Len(s)] = f]

\* the values random.random() can return, as fixed-point reals in [0, Unit)
RandomValues == { (k * Unit) \div rden : k \in 0 .. rden - 1 }

\* ------------------------------------------------------------ split (pure)
\* split(p_0, z, theta_0, theta, phi): the pair (p_rad, p_f)
split(p_0, z, theta_0, theta, phi) ==
    LET mag == Norm(p_0)
        mag_rad == FMul(mag, z)
        mag_f == FMul(mag, Unit - z)
        theta_rad == theta_0 + theta
        theta_f == theta_0 - theta
        phi_rad == phi
        phi_f == phi + Pi
        p_rad == << FMul(mag_rad, Cos(theta_rad)), FMul(mag_rad, Sin(theta_rad)),
                    FMul(mag_rad, Sin(phi_rad)) >>
        p_f == << FMul(mag_f, Cos(theta_f)), FMul(mag_f, Sin(theta_f)),
                  FMul(mag_f, Sin(phi_f)) >>
    IN  << p_rad, p_f >>

\* ---------------------------------------------------------------- samplers
\* faulty variant: the candidate is 1 - random.random(), in (0, 1]
ZCandidateFlipped(r) == Unit - r

\* gen_z_val: num = random.random()
ZCandidate(r) == r

\* faulty variant: the candidate is random.random() * math.pi, without the / 2
ThetaCandidateFull(r) == (r * Pi) \div Unit

\* gen_theta_val: num = random.random() * math.pi / 2, an angle
ThetaCandidate(r) == (r * Pi) \div (2 * Unit)

\* gen_phi_val: random.random() * math.pi / 2, an angle
PhiValue(r) == (r * Pi) \div (2 * Unit)

\* gen_z_val: f = 1 / (1 + num)
ZThreshold(num) == FDiv(Unit, Unit + num)

\* gen_theta_val: f = 1 / (1 + num), num in radians
ThetaThreshold(num) == FDiv(Unit, Unit + Radians(num))

\* faulty variant: the test is made against 1 / f, that is against 1 + num
AcceptsInverse(v, f) == v >= FDiv(Unit, f)

\* both samplers: random.random() <= f
Accepts(v, f) == v <= f

\* ------------------------------------------------------------- create_tree
\* a fresh activation of create_tree
Frame(p_0, theta_0, curr_layer) ==
    [ p_0 |-> p_0, theta_0 |-> theta_0, curr_layer |-> curr_layer, pc |-> "entry",
      z |-> 0, theta |-> 0, phi |-> 0,
      p_rad |-> << 0, 0, 0 >>, p_f |-> << 0, 0, 0 >>, curr |-> None ]

\* faulty variant: the base case tested with > instead of >=
AtMaxLayersStrict(curr_layer) == curr_layer > max_layers

\* line 146: curr_layer >= max_layers
AtMaxLayers(curr_layer) == curr_layer >= max_layers

\* faulty variant: the recursive calls skip a layer
NextLayerSkip(curr_layer) == curr_layer + 2

\* lines 154-155: the curr_layer argument of the recursive calls
NextLayer(curr_layer) == curr_layer + 1

\* line 154: the theta_0 argument of the left call
LeftAngle(theta_0, theta) == theta_0 + theta

\* faulty variant: the right call is given the left call's angle
RightAngleAsLeft(theta_0, theta) == theta_0 + theta

\* line 155: the theta_0 argument of the right call
RightAngle(theta_0, theta) == theta_0 - theta

GenIdle == [ pc |-> "draw", num |-> 0 ]

\* the sampler loop is at `while True`, about to draw num
AtDraw(which) ==
    /\ phase = "building" /\ stack # << >>
    /\ Top(stack).pc = which /\ gen.pc = "draw"

\* the sampler loop holds num and is about to draw the test value
AtTest(which) ==
    /\ phase = "building" /\ stack # << >>
    /\ Top(stack).pc = which /\ gen.pc = "test"

\* what a return of the innermost activation leaves in ret
RetOf(value) ==
    [ value |-> value, p_0 |-> Top(stack).p_0, theta_0 |-> Top(stack).theta_0,
      curr_layer |-> Top(stack).curr_layer ]

\* `return value` of the innermost create_tree activation: the value goes to
\* the caller's assignment (curr.left_child = ..., curr.right_child = ...),
\* or to the outermost caller
ReturnTree(value) ==
    LET rest == Pop(stack)
    IN  IF rest = << >>
        THEN /\ stack' = rest
             /\ ret' = RetOf(value)
             /\ root' = value
             /\ phase' = "built"
             /\ heap' = heap
        ELSE LET caller == Top(rest)
             IN  /\ root' = root
                 /\ ret' = RetOf(value)
                 /\ phase' = phase
                 /\ IF caller.pc = "left"
                    THEN /\ heap' = [heap EXCEPT ![caller.curr].left_child = value]
                         /\ stack' = SetTop(rest, [caller EXCEPT !.pc = "call_right"])
                    ELSE /\ heap' = [heap EXCEPT ![caller.curr].right_child = value]
                         /\ stack' = SetTop(rest, [caller EXCEPT !.pc = "return"])

\* line 146-147: if curr_layer >= max_layers: return None
TreeBaseCase ==
    /\ phase = "building" /\ stack # << >>
    /\ Top(stack).pc = "entry"
    /\ AtMaxLayers(Top(stack).curr_layer)
    /\ ReturnTree(None)
    /\ UNCHANGED << cfgVars, gen, built, calls, log_lines,
                    np_precision, gstack, segments, origin >>

\* line 148: else, on to z = gen_z_val()
TreeEnter ==
    /\ phase = "building" /\ stack # << >>
    /\ Top(stack).pc = "entry"
    /\ ~AtMaxLayers(Top(stack).curr_layer)
    /\ stack' = SetTop(stack, [Top(stack) EXCEPT !.pc = "gen_z"])
    /\ gen' = GenIdle
    /\ UNCHANGED << cfgVars, ret, heap, built, root, phase, calls,
                    log_lines, np_precision, gstack, segments, origin >>

\* gen_z_val, line 110: num = random.random()
GenZDraw ==
    /\ AtDraw("gen_z")
    /\ \E r \in RandomValues : gen' = [ pc |-> "test", num |-> ZCandidate(r) ]
    /\ UNCHANGED << cfgVars, ret, stack, heap, built, root, phase,
                    calls, log_lines, np_precision, gstack, segments, origin >>

\* gen_z_val, lines 111-113, the test passes: return num, to line 149's z
GenZAccept ==
    /\ AtTest("gen_z")
    /\ \E v \in RandomValues : Accepts(v, ZThreshold(gen.num))
    /\ stack' = SetTop(stack, [Top(stack) EXCEPT !.z = gen.num, !.pc = "gen_theta"])
    /\ gen' = GenIdle
    /\ calls' = [calls EXCEPT !.z = @ + 1]
    /\ UNCHANGED << cfgVars, ret, heap, built, root, phase,
                    log_lines, np_precision, gstack, segments, origin >>

\* gen_z_val, lines 111-112, the test fails: around the loop again
GenZReject ==
    /\ AtTest("gen_z")
    /\ \E v \in RandomValues : ~Accepts(v, ZThreshold(gen.num))
    /\ gen' = GenIdle
    /\ UNCHANGED << cfgVars, ret, stack, heap, built, root, phase,
                    calls, log_lines, np_precision, gstack, segments, origin >>

\* gen_theta_val, line 122: num = random.random() * math.pi / 2
GenThetaDraw ==
    /\ AtDraw("gen_theta")
    /\ \E r \in RandomValues : gen' = [ pc |-> "test", num |-> ThetaCandidate(r) ]
    /\ UNCHANGED << cfgVars, ret, stack, heap, built, root, phase,
                    calls, log_lines, np_precision, gstack, segments, origin >>

\* gen_theta_val, lines 123-125, the test passes: return num, to line 150's theta
GenThetaAccept ==
    /\ AtTest("gen_theta")
    /\ \E v \in RandomValues : Accepts(v, ThetaThreshold(gen.num))
    /\ stack' = SetTop(stack, [Top(stack) EXCEPT !.theta = gen.num, !.pc = "gen_phi"])
    /\ gen' = GenIdle
    /\ calls' = [calls EXCEPT !.theta = @ + 1]
    /\ UNCHANGED << cfgVars, ret, heap, built, root, phase,
                    log_lines, np_precision, gstack, segments, origin >>

\* gen_theta_val, lines 123-124, the test fails: around the loop again
GenThetaReject ==
    /\ AtTest("gen_theta")
    /\ \E v \in RandomValues : ~Accepts(v, ThetaThreshold(gen.num))
    /\ gen' = GenIdle
    /\ UNCHANGED << cfgVars, ret, stack, heap, built, root, phase,
                    calls, log_lines, np_precision, gstack, segments, origin >>

\* line 151: phi = gen_phi_val()
GenPhi ==
    /\ phase = "building" /\ stack # << >>
    /\ Top(stack).pc = "gen_phi"
    /\ \E r \in RandomValues :
          stack' = SetTop(stack, [Top(stack) EXCEPT !.phi = PhiValue(r), !.pc = "split"])
    /\ calls' = [calls EXCEPT !.phi = @ + 1]
    /\ UNCHANGED << cfgVars, ret, gen, heap, built, root, phase,
                    log_lines, np_precision, gstack, segments, origin >>

\* faulty variant: split scales its argument p_0 in place to the first output
SplitStepInPlace ==
    /\ phase = "building" /\ stack # << >>
    /\ Top(stack).pc = "split"
    /\ LET fr == Top(stack)
           out == split(fr.p_0, fr.z, fr.theta_0, fr.theta, fr.phi)
       IN  stack' = SetTop(stack, [fr EXCEPT !.p_0 = out[1], !.p_rad = out[1],
                                             !.p_f = out[2], !.pc = "node"])
    /\ log_lines' = log_lines + 2
    /\ np_precision' = 2
    /\ calls' = [calls EXCEPT !.split = @ + 1]
    /\ UNCHANGED << cfgVars, ret, gen, heap, built, root, phase,
                    gstack, segments, origin >>

\* line 152: p_rad, p_f = split(p_0, z, theta_0, theta, phi); the call writes
\* two log lines (92, 99) and calls np.set_printoptions(precision=2) (98)
SplitStep ==
    /\ phase = "building" /\ stack # << >>
    /\ Top(stack).pc = "split"
    /\ LET fr == Top(stack)
           out == split(fr.p_0, fr.z, fr.theta_0, fr.theta, fr.phi)
       IN  stack' = SetTop(stack, [fr EXCEPT !.p_rad = out[1], !.p_f = out[2],
                                             !.pc = "node"])
    /\ log_lines' = log_lines + 2
    /\ np_precision' = 2
    /\ calls' = [calls EXCEPT !.split = @ + 1]
    /\ UNCHANGED << cfgVars, ret, gen, heap, built, root, phase,
                    gstack, segments, origin >>

\* faulty variant: the node is given the first split output instead of p_0
PartonDataRad(fr) == fr.p_rad

\* line 153: the data argument of Parton(p_0)
PartonData(fr) == fr.p_0

\* line 153: curr = Parton(p_0)
NewParton ==
    /\ phase = "building" /\ stack # << >>
    /\ Top(stack).pc = "node"
    /\ LET fr == Top(stack)
           id == Len(heap) + 1
       IN  /\ heap' = Append(heap, [ data |-> PartonData(fr), left_child |-> None,
                                     right_child |-> None ])
           /\ built' = Append(built, [ theta_0 |-> fr.theta_0, z |-> fr.z,
                                       theta |-> fr.theta, phi |-> fr.phi,
                                       p_rad |-> fr.p_rad, p_f |-> fr.p_f,
                                       curr_layer |-> fr.curr_layer,
                                       calls |-> calls ])
           /\ stack' = SetTop(stack, [fr EXCEPT !.curr = id, !.pc = "call_left"])
    /\ UNCHANGED << cfgVars, ret, gen, root, phase, calls,
                    log_lines, np_precision, gstack, segments, origin >>

\* line 154, the call: create_tree(p_rad, theta_0 + theta, max_layers, curr_layer + 1)
CallLeft ==
    /\ phase = "building" /\ stack # << >>
    /\ Top(stack).pc = "call_left"
    /\ LET fr == Top(stack)
       IN  stack' = Append(SetTop(stack, [fr EXCEPT !.pc = "left"]),
                           Frame(fr.p_rad, LeftAngle(fr.theta_0, fr.theta),
                                 NextLayer(fr.curr_layer)))
    /\ UNCHANGED << cfgVars, ret, gen, heap, built, root, phase,
                    calls, log_lines, np_precision, gstack, segments, origin >>

\* line 155, the call: create_tree(p_f, theta_0 - theta, max_layers, curr_layer + 1)
CallRight ==
    /\ phase = "building" /\ stack # << >>
    /\ Top(stack).pc = "call_right"
    /\ LET fr == Top(stack)
       IN  stack' = Append(SetTop(stack, [fr EXCEPT !.pc = "right"]),
                           Frame(fr.p_f, RightAngle(fr.theta_0, fr.theta),
                                 NextLayer(fr.curr_layer)))
    /\ UNCHANGED << cfgVars, ret, gen, heap, built, root, phase,
                    calls, log_lines, np_precision, gstack, segments, origin >>

\* line 156: return curr
TreeReturn ==
    /\ phase = "building" /\ stack # << >>
    /\ Top(stack).pc = "return"
    /\ ReturnTree(Top(stack).curr)
    /\ UNCHANGED << cfgVars, gen, built, calls, log_lines,
                    np_precision, gstack, segments, origin >>

\* ------------------------------------------------------------ create_graph
\* a fresh activation of create_graph(node, x_0, y_0, z_0)
GFrame(node, start) ==
    [ node |-> node, start |-> start, end |-> << 0, 0, 0 >>, pc |-> "entry" ]

\* faulty variant: the children are drawn from the node's start point
ChildStartSame(fr) == fr.start

\* lines 62-63: the (x_end, y_end, z_end) passed to the recursive calls
ChildStart(fr) == fr.end

\* the implicit `return None` of the innermost create_graph activation
ReturnGraph ==
    LET rest == Pop(gstack)
    IN  IF rest = << >>
        THEN /\ gstack' = rest
             /\ phase' = "done"
        ELSE LET caller == Top(rest)
             IN  /\ phase' = phase
                 /\ gstack' = SetTop(rest, [caller EXCEPT !.pc =
                        IF caller.pc = "left" THEN "call_right" ELSE "return"])

\* line 167: vis.create_graph(root, x_0, y_0, z_0)
StartGraph ==
    /\ phase = "built"
    /\ \E o \in { << 0, 0, 0 >>, << Unit, -Unit, 0 >> } :
          /\ origin' = o
          /\ gstack' = << GFrame(root, o) >>
    /\ phase' = "drawing"
    /\ segments' = << >>
    /\ UNCHANGED treeVars

\* line 57, node is None: nothing is drawn
GraphEmpty ==
    /\ phase = "drawing" /\ gstack # << >>
    /\ Top(gstack).pc = "entry"
    /\ Top(gstack).node = None
    /\ ReturnGraph
    /\ UNCHANGED << segments, origin >>
    /\ UNCHANGED treeVars

\* lines 58-61: the end point, and self._axes.plot of the segment
GraphPlot ==
    /\ phase = "drawing" /\ gstack # << >>
    /\ Top(gstack).pc = "entry"
    /\ Top(gstack).node # None
    /\ LET fr == Top(gstack)
           data == heap[fr.node].data
           x_end == fr.start[1] + data[1]
           y_end == fr.start[2] + data[2]
           z_end == fr.start[3] + data[3]
           end == << x_end, y_end, z_end >>
       IN  /\ segments' = Append(segments, [ start |-> fr.start, end |-> end ])
           /\ gstack' = SetTop(gstack, [fr EXCEPT !.end = end, !.pc = "call_left"])
    /\ UNCHANGED << phase, origin >>
    /\ UNCHANGED treeVars

\* line 62: self.create_graph(node.left_child, x_end, y_end, z_end)
GraphCallLeft ==
    /\ phase = "drawing" /\ gstack # << >>
    /\ Top(gstack).pc = "call_left"
    /\ LET fr == Top(gstack)
       IN  gstack' = Append(SetTop(gstack, [fr EXCEPT !.pc = "left"]),
                            GFrame(heap[fr.node].left_child, ChildStart(fr)))
    /\ UNCHANGED << phase, segments, origin >>
    /\ UNCHANGED treeVars

\* line 63: self.create_graph(node.right_child, x_end, y_end, z_end)
GraphCallRight ==
    /\ phase = "drawing" /\ gstack # << >>
    /\ Top(gstack).pc = "call_right"
    /\ LET fr == Top(gstack)
       IN  gstack' = Append(SetTop(gstack, [fr EXCEPT !.pc = "right"]),
                            GFrame(heap[fr.node].right_child, ChildStart(fr)))
    /\ UNCHANGED << phase, segments, origin >>
    /\ UNCHANGED treeVars

\* the end of create_graph's body after line 63
GraphReturn ==
    /\ phase = "drawing" /\ gstack # << >>
    /\ Top(gstack).pc = "return"
    /\ ReturnGraph
    /\ UNCHANGED << segments, origin >>
    /\ UNCHANGED treeVars

\* ---------------------------------------------------------- specifications
\* the (p_0, theta_0) the outermost create_tree call is given: the spec's
\* (1, 0, 0) at angle 0 and the directions of lines 160-164
Roots ==
    { << << Unit, 0, 0 >>, 0 >>,
      << << Unit, Unit, Unit >>, Pi \div 4 >>,
      << << -Unit, -Unit, -Unit >>, (5 * Pi) \div 4 >> }

\* the number of Partons create_tree makes from layer s with max_layers m
NodesFrom(m, s) == Pow2(m - s) - 1

\* the (max_layers, curr_layer, rden) explored: a tree built from layer 0,
\* as the docstring asks, or a call at or above max_layers
Configs ==
    { c \in (0 .. MaxLayers) \X (0 .. MaxLayers + 1) \X (1 .. MaxRDen) :
        /\ c[2] \in { 0, c[1], c[1] + 1 }
        /\ PowCap(c[3], 3 * NodesFrom(c[1], c[2]), MaxOutcomes) <= MaxOutcomes }

\* the state in which the outermost create_tree call has just been made
InitCommon ==
    /\ gen = GenIdle
    /\ heap = << >>
    /\ built = << >>
    /\ root = None
    /\ phase = "building"
    /\ calls = [ z |-> 0, theta |-> 0, phi |-> 0, split |-> 0 ]
    /\ log_lines = 0
    /\ np_precision = 8
    /\ gstack = << >>
    /\ segments = << >>
    /\ origin = << 0, 0, 0 >>
    /\ ret = [ value |-> None, p_0 |-> << 0, 0, 0 >>, theta_0 |-> 0,
              curr_layer |-> -1 ]

Init ==
    /\ \E c \in Configs :
          /\ max_layers = c[1]
          /\ start_layer = c[2]
          /\ rden = c[3]
    /\ \E rt \in Roots :
          /\ input = [ p_0 |-> rt[1], theta_0 |-> rt[2] ]
          /\ stack = << Frame(rt[1], rt[2], start_layer) >>
    /\ InitCommon

Next ==
    \/ TreeBaseCase
    \/ TreeEnter
    \/ GenZDraw
    \/ GenZAccept
    \/ GenZReject
    \/ GenThetaDraw
    \/ GenThetaAccept
    \/ GenThetaReject
    \/ GenPhi
    \/ SplitStep
    \/ NewParton
    \/ CallLeft
    \/ CallRight
    \/ TreeReturn
    \/ StartGraph
    \/ GraphEmpty
    \/ GraphPlot
    \/ GraphCallLeft
    \/ GraphCallRight
    \/ GraphReturn

Spec == Init /\ [][Next]_vars

\* split alone, on arguments of its whole domain: the momenta, energy
\* fractions and angles below, not only those create_tree passes
SplitMomenta ==
    { << Unit, 0, 0 >>, << Unit, Unit, Unit >>, << -Unit, -Unit, -Unit >>,
      << 0, 0, 0 >>, << 0, -Unit, Unit \div 2 >> }

SplitAngles == { 0, 20, 30, 45, 60, 90, 120, 150, 200 }

InitSplit ==
    /\ max_layers = 1
    /\ start_layer = 0
    /\ \E r \in 1 .. MaxRDen : rden = r
    /\ \E p \in SplitMomenta, z \in RandomValues, t0 \in { 0, 30, 150 },
          t \in { 0, 20, 30, 45 }, ph \in SplitAngles :
          /\ input = [ p_0 |-> p, theta_0 |-> t0 ]
          /\ stack = << [Frame(p, t0, 0) EXCEPT !.z = z, !.theta = t, !.phi = ph,
                                                !.pc = "split"] >>
    /\ InitCommon

NextSplit == SplitStep

SpecSplit == InitSplit /\ [][NextSplit]_vars

\* a random source under which neither rejection loop rejects forever, and a
\* program that keeps running
FairSpec ==
    /\ Spec
    /\ WF_vars(Next)
    /\ SF_vars(GenZAccept)
    /\ SF_vars(GenThetaAccept)

\* ------------------------------------------------- the tree, read from heap
RECURSIVE Size(_)
\* the number of nodes of the tree rooted at n
Size(n) ==
    IF n = None THEN 0
    ELSE 1 + Size(heap[n].left_child) + Size(heap[n].right_child)

RECURSIVE Nodes(_)
\* the ids of the nodes of the tree rooted at n
Nodes(n) ==
    IF n = None THEN { }
    ELSE { n } \cup Nodes(heap[n].left_child) \cup Nodes(heap[n].right_child)

RECURSIVE LeafLayers(_, _)
\* the layers at which the tree rooted at n (itself at layer d) has its leaves
LeafLayers(n, d) ==
    IF n = None THEN { }
    ELSE IF heap[n].left_child = None /\ heap[n].right_child = None THEN { d }
    ELSE LeafLayers(heap[n].left_child, d + 1)
            \cup LeafLayers(heap[n].right_child, d + 1)

\* the outermost create_tree call has returned
Returned == phase # "building"

\* ---------------------------------------------------------------------- C1
\* C1: once create_tree(p0, theta0, max_layers, 0) has returned, the tree is a
\* complete binary tree: it has exactly 2^max_layers - 1 nodes (and no Parton
\* was made that is not in it), every leaf is at layer max_layers (the root
\* being layer 1), and no node has exactly one child.
C1_CompleteTree ==
    (Returned /\ start_layer = 0) =>
        /\ Size(root) = Pow2(max_layers) - 1
        /\ Len(heap) = Size(root)
        /\ LeafLayers(root, 1) \subseteq { max_layers }
        /\ \A n \in Nodes(root) :
              (heap[n].left_child = None) <=> (heap[n].right_child = None)

\* a two-layer tree whose samplers returned other values than 0
C1_Witness ==
    /\ phase = "built" /\ start_layer = 0 /\ max_layers = 2
    /\ Size(root) = 3
    /\ built[1].theta > 0 /\ built[1].z > 0
    /\ heap[heap[1].left_child].data # heap[heap[1].right_child].data

\* ---------------------------------------------------------------------- C4
\* C4: a create_tree call returns None exactly when its curr_layer >=
\* max_layers, and otherwise a node that stores the call's p_0; no step
\* changes the p_0 of a live activation, and the outermost activation's p_0
\* is the given one.  With max_layers = 0 (from layer 0) the result is
\* empty; with max_layers = 1 it is one node holding p0 with two empty
\* children.
C4_ReturnState ==
    /\ ret.curr_layer >= 0 =>
          /\ (ret.value = None) <=> (ret.curr_layer >= max_layers)
          /\ ret.value # None => heap[ret.value].data = ret.p_0
    /\ stack # << >> => stack[1].p_0 = input.p_0
    /\ Returned =>
          /\ ret.p_0 = input.p_0 /\ ret.curr_layer = start_layer
          /\ ret.value = root
          /\ (start_layer = 0 /\ max_layers = 0) => root = None
          /\ (start_layer = 0 /\ max_layers = 1) =>
                /\ root # None
                /\ heap[root] = [ data |-> input.p_0, left_child |-> None,
                                  right_child |-> None ]

C4_ReturnContract ==
    /\ []C4_ReturnState
    /\ [][\A i \in 1 .. Len(stack) :
             i <= Len(stack') => stack'[i].p_0 = stack[i].p_0]_vars

\* a one-layer tree has been returned: one node, holding the given p0
C4_Witness ==
    /\ Returned /\ start_layer = 0 /\ max_layers = 1 /\ root # None
    /\ heap[root].data = << Unit, Unit, Unit >>

\* ---------------------------------------------------------------------- C2
\* C2 (as claimed): after split(p_0, z, theta_0, theta, phi) with 0 < z < 1,
\* ||p_rad|| = ||p_0|| * z and ||p_f|| = ||p_0|| * (1 - z), the norms over
\* all three components, to within 3 fixed-point units (0.0005).
C2_MagnitudeConserved ==
    (stack # << >> /\ Top(stack).pc = "node"
        /\ Top(stack).z > 0 /\ Top(stack).z < Unit) =>
        LET fr == Top(stack)
            mag == Norm(fr.p_0)
        IN  /\ Abs(Norm(fr.p_rad) - FMul(mag, fr.z)) <= 3
            /\ Abs(Norm(fr.p_f) - FMul(mag, Unit - fr.z)) <= 3

\* ---------------------------------------------------------------------- C3
\* the activations in which z (theta) has been assigned
HasZ(fr) == fr.pc \notin { "entry", "gen_z" }
HasTheta(fr) == fr.pc \notin { "entry", "gen_z", "gen_theta" }

\* C3 (as claimed): every value gen_z_val returned is in the open interval
\* (0, 1) and every value gen_theta_val returned is in (0, pi/2).
C3_OpenIntervals ==
    \A i \in 1 .. Len(stack) :
        /\ HasZ(stack[i]) => (0 < stack[i].z /\ stack[i].z < Unit)
        /\ HasTheta(stack[i]) => (0 < stack[i].theta /\ stack[i].theta < Pi \div 2)

\* C3 (amended): every value gen_z_val returned is in [0, 1) and every value
\* gen_theta_val returned is in [0, pi/2): 0 is returned when the first draw
\* is 0, the upper end never.
C3_HalfOpenIntervals ==
    /\ \A i \in 1 .. Len(stack) :
        /\ HasZ(stack[i]) => (0 <= stack[i].z /\ stack[i].z < Unit)
        /\ HasTheta(stack[i]) => (0 <= stack[i].theta /\ stack[i].theta < Pi \div 2)
    /\ \A n \in 1 .. Len(built) :
        /\ 0 <= built[n].z /\ built[n].z < Unit
        /\ 0 <= built[n].theta /\ built[n].theta < Pi \div 2

\* both samplers have returned 0 for one node and more than 0 for another
C3_Witness ==
    /\ Len(built) >= 2
    /\ built[1].z = 0 /\ built[1].theta = 0
    /\ built[2].z > 0 /\ built[2].theta > 0

\* ---------------------------------------------------------------------- C7
\* C7 (as claimed): in both samplers the threshold f = 1 / (1 + num) is at
\* least 1/2 for every candidate num drawn.
C7_AtLeastHalf ==
    /\ AtTest("gen_z") => ZThreshold(gen.num) >= Unit \div 2
    /\ AtTest("gen_theta") => ThetaThreshold(gen.num) >= Unit \div 2

\* C7 (amended): in gen_z_val f is at least 1/2; in gen_theta_val f is at
\* least 1 / (1 + pi/2), about 0.389, and it is at least 1/2 exactly for the
\* candidates of at most 1 radian.
C7_Thresholds ==
    /\ AtTest("gen_z") => ZThreshold(gen.num) >= Unit \div 2
    /\ AtTest("gen_theta") =>
          LET f == ThetaThreshold(gen.num)
          IN  /\ f >= FDiv(Unit, Unit + PiFixed \div 2)
              /\ (f >= Unit \div 2) <=> (Radians(gen.num) <= Unit)

\* gen_theta_val holds a candidate of more than 1 radian
C7_Witness == AtTest("gen_theta") /\ Radians(gen.num) > Unit

\* ---------------------------------------------------------------------- C5
RECURSIVE PreOrder(_, _)
\* the segments of the tree rooted at n drawn from start: the node's own, then
\* those of its left subtree, then those of its right subtree, the subtrees
\* drawn from the node's end point
PreOrder(n, start) ==
    IF n = None THEN << >>
    ELSE LET data == heap[n].data
             end == << start[1] + data[1], start[2] + data[2], start[3] + data[3] >>
         IN  << [ start |-> start, end |-> end ] >>
                \o PreOrder(heap[n].left_child, end)
                \o PreOrder(heap[n].right_child, end)

\* C5: create_graph(root, origin) plots exactly one segment per node, in
\* pre-order; the root's starts at the origin, every other node's at the end
\* point of its parent's, and each ends at its start plus the node's momentum.
\* While it runs, what is plotted is a prefix of that sequence; an empty tree
\* plots nothing.
C5_PreOrderSegments ==
    phase \in { "drawing", "done" } =>
        LET all == PreOrder(root, origin)
        IN  /\ Len(all) = Size(root)
            /\ Len(segments) <= Len(all)
            /\ segments = SubSeq(all, 1, Len(segments))
            /\ phase = "done" => segments = all
            /\ root = None => segments = << >>

\* a three-node tree has been drawn, from an origin other than (0, 0, 0)
C5_Witness ==
    /\ phase = "done" /\ Len(segments) = 3
    /\ origin # << 0, 0, 0 >>
    /\ segments[2].start = segments[1].end
    /\ segments[3].start = segments[1].end
    /\ segments[3].end # segments[2].end
    /\ segments[1].end # segments[1].start

\* ---------------------------------------------------------------------- C8
\* the innermost create_tree activation is at its call of split
AtSplit == phase = "building" /\ stack # << >> /\ Top(stack).pc = "split"

\* what a call of split leaves alone, the process-wide print precision aside:
\* its arguments, the caller's other locals, the other activations, the
\* Partons, the plot; it writes two log lines
SplitFrame ==
    /\ Len(stack') = Len(stack)
    /\ Pop(stack') = Pop(stack)
    /\ Top(stack') = [Top(stack) EXCEPT !.p_rad = Top(stack').p_rad,
                                        !.p_f = Top(stack').p_f,
                                        !.pc = "node"]
    /\ log_lines' = log_lines + 2
    /\ UNCHANGED << cfgVars, gen, heap, built, root, phase, gstack, segments,
                    origin, ret >>

\* C8 (as claimed): a call of split changes nothing but the log, and in
\* particular no process-global setting.
C8_NoGlobalChange ==
    [][AtSplit => (SplitFrame /\ np_precision' = np_precision)]_vars

\* C8 (amended): a call of split leaves p_0 and every other piece of program
\* state unchanged except that, besides writing its two log lines, it sets
\* numpy's process-wide print precision to 2 (np.set_printoptions).
C8_OnlyPrecisionChanges ==
    [][AtSplit => (SplitFrame /\ np_precision' = 2)]_vars

\* split has run, with Partons in the heap, and the print precision is 2
C8_Witness ==
    /\ phase = "building" /\ stack # << >> /\ Top(stack).pc = "node"
    /\ Len(heap) >= 1
    /\ Top(stack).p_rad # << 0, 0, 0 >>
    /\ np_precision = 2

\* ---------------------------------------------------------------------- C9
\* C9: for every node n, built from momentum p and angle t with the sampled
\* (z, theta, phi), and (p_a, p_b) = split(p, z, t, theta, phi): the left
\* child, when present, holds p_a and was built with angle t + theta, the
\* right child holds p_b and was built with angle t - theta; so a child's x
\* and y components are its magnitude times the cosine and sine of the angle
\* it was built with.
C9_ChildrenFromSplit ==
    \A n \in 1 .. Len(heap) :
        LET b == built[n]
            p == heap[n].data
            out == split(p, b.z, b.theta_0, b.theta, b.phi)
            l == heap[n].left_child
            r == heap[n].right_child
        IN  /\ l # None =>
                  /\ heap[l].data = out[1]
                  /\ built[l].theta_0 = b.theta_0 + b.theta
                  /\ heap[l].data[1] = FMul(FMul(Norm(p), b.z), Cos(built[l].theta_0))
                  /\ heap[l].data[2] = FMul(FMul(Norm(p), b.z), Sin(built[l].theta_0))
            /\ r # None =>
                  /\ heap[r].data = out[2]
                  /\ built[r].theta_0 = b.theta_0 - b.theta
                  /\ heap[r].data[1] =
                        FMul(FMul(Norm(p), Unit - b.z), Cos(built[r].theta_0))
                  /\ heap[r].data[2] =
                        FMul(FMul(Norm(p), Unit - b.z), Sin(built[r].theta_0))

\* a root at angle pi/4 that split by pi/4 has both children attached
C9_Witness ==
    /\ Len(heap) = 3 /\ heap[1].left_child # None /\ heap[1].right_child # None
    /\ built[1].theta_0 = Pi \div 4 /\ built[1].theta = Pi \div 4
    /\ built[1].z = Unit \div 2
    /\ built[heap[1].right_child].theta_0 = 0
    /\ built[heap[1].left_child].theta_0 = Pi \div 2

\* --------------------------------------------------------------------- C10
\* C10: the samplers and split are called once per node made, in the order
\* gen_z_val, gen_theta_val, gen_phi_val, split, all before the node is made
\* and so before either child is built; when create_tree(.., max_layers, 0)
\* has returned split has been called 2^max_layers - 1 times, and not at all
\* when the result is empty; the nodes of the last layer were split too, and
\* have no children.
C10_CallsPerNode ==
    /\ calls.split \in { Len(heap), Len(heap) + 1 }
    /\ calls.phi \in { calls.split, calls.split + 1 }
    /\ calls.theta \in { calls.phi, calls.phi + 1 }
    /\ calls.z \in { calls.theta, calls.theta + 1 }
    /\ calls.z <= Len(heap) + 1
    /\ log_lines = 2 * calls.split
    /\ \A n \in 1 .. Len(heap) :
          /\ built[n].calls = [ z |-> n, theta |-> n, phi |-> n, split |-> n ]
          /\ heap[n].left_child # None => heap[n].left_child > n
          /\ heap[n].right_child # None => heap[n].right_child > n
    /\ Returned =>
          /\ calls = [ z |-> Size(root), theta |-> Size(root), phi |-> Size(root),
                       split |-> Size(root) ]
          /\ start_layer = 0 => calls.split = Pow2(max_layers) - 1
          /\ root = None => calls.split = 0
          /\ \A n \in Nodes(root) :
                built[n].curr_layer = max_layers - 1 =>
                    /\ built[n].calls.split = n
                    /\ heap[n].left_child = None /\ heap[n].right_child = None

\* a two-layer tree is returned after three splits; the last node's split
\* gave two momenta that are not zero, and the node has no children
C10_Witness ==
    /\ phase = "built" /\ start_layer = 0 /\ max_layers = 2
    /\ calls.split = 3
    /\ built[3].curr_layer = 1
    /\ built[3].p_rad # << 0, 0, 0 >> /\ built[3].p_f # << 0, 0, 0 >>
    /\ heap[3].left_child = None /\ heap[3].right_child = None

\* ---------------------------------------------------------------------- C6
\* a rejection sampler is running
InGen(which) == phase = "building" /\ stack # << >> /\ Top(stack).pc = which

\* the recursion depth: an activation's curr_layer is the number of
\* activations below it, and it is at most max_layers
DepthBounded ==
    start_layer = 0 =>
        \A i \in 1 .. Len(stack) :
            stack[i].curr_layer = i - 1 /\ stack[i].curr_layer <= max_layers

\* C6: under a random source that does not reject forever, every call of
\* gen_z_val and of gen_theta_val returns and the outermost create_tree call
\* returns, the recursion never deeper than max_layers.
C6_Terminates ==
    /\ []DepthBounded
    /\ InGen("gen_z") ~> ~InGen("gen_z")
    /\ InGen("gen_theta") ~> ~InGen("gen_theta")
    /\ <>Returned

\* a candidate that the test can reject was in the end accepted, and the
\* tree returned
C6_Witness ==
    /\ Returned /\ max_layers = 1 /\ start_layer = 0 /\ Len(built) = 1
    /\ \E v \in RandomValues : ~Accepts(v, ThetaThreshold(built[1].theta))
    /\ \E v \in RandomValues : ~Accepts(v, ZThreshold(built[1].z))

====
